---- MODULE Spec2Model ----
(***************************************************************************)
(* Closed-form linear regression notebook (linear_regression_numpy.ipynb). *)
(*                                                                         *)
(* The notebook is a top-to-bottom run of code cells; every cell is one    *)
(* action of the model and pc names the cell that runs next.  A cell that  *)
(* raises an exception stops the run (pc = "halted", err = the exception). *)
(*                                                                         *)
(* Numbers.  The notebook computes in float64.  The model computes the     *)
(* same expressions exactly: a number is <<n, d, m, e>>, which stands for  *)
(* (n/d) * sqrt(m) * 2^(-30 e), d > 0, gcd(n, d) = 1, m squarefree, so     *)
(* that np.std of integer data is representable.  What float64 does and    *)
(* exact arithmetic does not is kept where it changes a result:            *)
(*  - the IEEE special values NaN (0/0, an unparseable CSV field), +Inf    *)
(*    and -Inf (x/0);                                                      *)
(*  - absorption: a sum whose smaller addend is at least two scales        *)
(*    (2^-60) below the larger rounds to the larger addend;                *)
(*  - the LU pivot test of np.linalg.inv on a matrix whose determinant is  *)
(*    zero, which the exact value does not decide: the model takes every   *)
(*    outcome the float computation can have, and the finite numbers of    *)
(*    such a result are the single abstract value Junk.                    *)
(* Rounding of the last bit of a result is not modelled.                   *)
(***************************************************************************)
EXTENDS Integers, Sequences, FiniteSets

\* ---------------------------------------------------------------- bounds

\* the most data rows of a CSV file, and the most entries of a vector
MaxRows == 3

\* the feature counts of the CSV files, and the numbers in their fields
FeatureCounts == 1..2
Values == 0..1

\* ------------------------------------------------------- float64 numbers

Abs(n) == IF n < 0 THEN 0 - n ELSE n

Sgn(n) == IF n < 0 THEN 0 - 1 ELSE IF n > 0 THEN 1 ELSE 0

RECURSIVE GCD(_, _)
GCD(a, b) == IF b = 0 THEN a ELSE GCD(b, a % b)

\* m = k*k*r with r squarefree: <<k, r>>
RECURSIVE SqExtract(_, _, _)
SqExtract(m, f, k) ==
    IF f * f > m THEN <<k, m>>
    ELSE IF m % (f * f) = 0 THEN SqExtract(m \div (f * f), f, k * f)
    ELSE SqExtract(m, f + 1, k)

Zero == <<0, 1, 1, 0>>
One  == <<1, 1, 1, 0>>
NaN  == <<0, 0, 0, 0>>
PInf == <<1, 0, 0, 0>>
NInf == <<0 - 1, 0, 0, 0>>
Junk == <<0, 0, 1, 0>>

\* 2^-30: a float64 whose square, 2^-60, is below half the spacing of the
\* floats next to 1
Small == <<1, 1, 1, 1>>

Num(i) == <<i, 1, 1, 0>>

IsFinite(a) == a[2] # 0 \/ a = Junk
IsExact(a)  == a[2] # 0
IsInf(a)    == a = PInf \/ a = NInf

InfOf(s) == IF s < 0 THEN NInf ELSE PInf

\* A value no number of the model stands for; no reachable state evaluates it.
Unrepresentable == CHOOSE x \in {} : TRUE

\* (n/d) * sqrt(m) * 2^(-30 e), d # 0, m >= 0, in normal form
Norm(n, d, m, e) ==
    IF n = 0 \/ m = 0 THEN Zero
    ELSE LET x  == SqExtract(m, 2, 1)
             nn == n * x[1] * Sgn(d)
             dd == Abs(d)
             g  == GCD(Abs(nn), dd)
         IN  <<nn \div g, dd \div g, x[2], e>>

Neg(a) == <<0 - a[1], a[2], a[3], a[4]>>

\* |lo| 2^(30 lo[4]) <= 32 |hi| 2^(30 hi[4]): the scales alone tell the sizes apart
Comparable(lo, hi) ==
    lo[1] * lo[1] * lo[3] * hi[2] * hi[2] <= 1024 * hi[1] * hi[1] * hi[3] * lo[2] * lo[2]

\* hi + lo in float64 when lo is at least two scales below hi: |lo| < 2^-54 |hi|,
\* and the sum rounds to hi
Absorb(hi, lo) == IF Comparable(lo, hi) THEN hi ELSE Unrepresentable

Add(a, b) ==
    IF a = NaN \/ b = NaN THEN NaN
    ELSE IF a = Junk \/ b = Junk THEN Junk
    ELSE IF IsInf(a) /\ IsInf(b) THEN (IF a = b THEN a ELSE NaN)
    ELSE IF IsInf(a) THEN a
    ELSE IF IsInf(b) THEN b
    ELSE IF a = Zero THEN b
    ELSE IF b = Zero THEN a
    ELSE IF a[4] = b[4] /\ a[3] = b[3]
         THEN Norm(a[1] * b[2] + b[1] * a[2], a[2] * b[2], a[3], a[4])
    ELSE IF b[4] >= a[4] + 2 THEN Absorb(a, b)
    ELSE IF a[4] >= b[4] + 2 THEN Absorb(b, a)
    ELSE Unrepresentable

Sub(a, b) == Add(a, Neg(b))

Mul(a, b) ==
    IF a = NaN \/ b = NaN THEN NaN
    ELSE IF a = Junk \/ b = Junk THEN Junk
    ELSE IF IsInf(a) \/ IsInf(b)
         THEN (IF a = Zero \/ b = Zero THEN NaN ELSE InfOf(a[1] * b[1]))
    ELSE Norm(a[1] * b[1], a[2] * b[2], a[3] * b[3], a[4] + b[4])

Div(a, b) ==
    IF a = NaN \/ b = NaN THEN NaN
    ELSE IF a = Junk \/ b = Junk THEN Junk
    ELSE IF b = Zero THEN (IF a = Zero THEN NaN ELSE InfOf(a[1]))
    ELSE IF IsInf(b) THEN (IF IsInf(a) THEN NaN ELSE Zero)
    ELSE IF IsInf(a) THEN InfOf(a[1] * b[1])
    ELSE Norm(a[1] * b[2], a[2] * b[1] * b[3], a[3] * b[3], a[4] - b[4])

Sqrt(a) ==
    IF a = NaN \/ a = NInf THEN NaN
    ELSE IF a = Junk \/ a = PInf THEN a
    ELSE IF a[1] < 0 THEN NaN
    ELSE IF a[3] = 1 /\ a[4] % 2 = 0 THEN Norm(1, a[2], a[1] * a[2], a[4] \div 2)
    ELSE Unrepresentable

\* a <= b for exact numbers without a root, of one scale
Leq(a, b) == a[1] * b[2] <= b[1] * a[2]

\* ------------------------------------------------------ vectors, matrices

\* the array with its entries computed: an array is built once, then read
Arr(f) == <<>> \o f

RECURSIVE SumSeq(_)
SumSeq(s) == IF s = <<>> THEN Zero ELSE Add(Head(s), SumSeq(Tail(s)))

NRows(M) == Len(M)
NCols(M) == IF M = <<>> THEN 0 ELSE Len(M[1])

Column(M, j) == Arr([i \in 1..Len(M) |-> M[i][j]])

Transpose(M) == Arr([j \in 1..NCols(M) |-> Column(M, j)])

Dot(u, v) == SumSeq(Arr([k \in 1..Len(u) |-> Mul(u[k], v[k])]))

MatMul(A, B) ==
    Arr([i \in 1..Len(A) |-> Arr([j \in 1..NCols(B) |-> Dot(A[i], Column(B, j))])])

MatVec(A, v) == Arr([i \in 1..Len(A) |-> Dot(A[i], v)])

Drop(s, k) == Arr([i \in 1..(Len(s) - 1) |-> IF i < k THEN s[i] ELSE s[i + 1]])

Minor(M, r, c) == Arr([i \in 1..(Len(M) - 1) |-> Drop(Drop(M, r)[i], c)])

RECURSIVE Det(_)
Det(M) ==
    IF Len(M) = 1 THEN M[1][1]
    ELSE SumSeq(Arr([j \in 1..Len(M) |->
                        LET t == Mul(M[1][j], Det(Minor(M, 1, j)))
                        IN  IF j % 2 = 1 THEN t ELSE Neg(t)]))

Cofactor(M, i, j) ==
    LET c == IF Len(M) = 1 THEN One ELSE Det(Minor(M, i, j))
    IN  IF (i + j) % 2 = 0 THEN c ELSE Neg(c)

\* the inverse of a matrix whose determinant is not zero
Inverse(M) ==
    LET dt == Det(M)
    IN  Arr([i \in 1..Len(M) |-> Arr([j \in 1..Len(M) |-> Div(Cofactor(M, j, i), dt)])])

\* ------------------------------------------------------------ the notebook

VARIABLES
    file,             \* housing.csv below its header line: rows of fields
    pc,               \* the cell that runs next
    err,              \* the exception that stopped the run, or "none"
    X, y,             \* features and target
    X_norm, mean, std,
    X_bias,
    theta,
    y_pred,
    mse, r2,
    new_house, new_house_norm, new_house_bias, predicted_price

vars == <<file, pc, err, X, y, X_norm, mean, std, X_bias, theta, y_pred,
          mse, r2, new_house, new_house_norm, new_house_bias, predicted_price>>

\* a name the run has not assigned yet
Unset == <<>>

\* A CSV field: <<v>> is the text of the number v; <<>> is an empty field or
\* text that is not a number.
NumericFields == {<<v>> : v \in Values}

\* files of numbers: any number of rows, a target column and up to the widest
\* feature count (or the target column alone)
CleanFiles ==
    UNION {[1..R -> [1..N -> NumericFields]] :
           R \in 0..MaxRows, N \in {1} \cup {c + 1 : c \in FeatureCounts}}

\* the files whose fields all hold the same number
FlatFiles == {f \in CleanFiles : \A i \in 1..Len(f) : \A j \in 1..NCols(f) : f[i][j] = f[1][1]}

\* one field of a file left empty or overwritten by text
BlankedFiles ==
    UNION {{[f EXCEPT ![i][j] = <<>>] : i \in 1..Len(f), j \in 1..NCols(f)} : f \in FlatFiles}

\* one row of a file lacking its last field
ShortFiles ==
    UNION {{[f EXCEPT ![i] = SubSeq(f[i], 1, Len(f[i]) - 1)] : i \in 1..Len(f)} :
           f \in {g \in FlatFiles : NCols(g) >= 2}}

Files == CleanFiles \cup BlankedFiles \cup ShortFiles

\* the rows a new sample is drawn from: one row of any feature count up to one
\* more than the widest file's, whatever the feature count of the file
NewHouses ==
    UNION {[1..1 -> [1..m -> {Num(v) : v \in Values}]] :
           m \in FeatureCounts \cup {c + 1 : c \in FeatureCounts}}

\* np.genfromtxt's float converter: the number, or nan for anything else
ParseField(f) == IF Len(f) = 1 THEN Num(f[1]) ELSE NaN

\* np.genfromtxt(path, delimiter=",", skip_header=1): a ValueError when the rows
\* differ in their number of fields, else the array, squeezed (a single row, a
\* single column or no row at all is returned one-dimensional).
genfromtxt(f) ==
    IF \E i \in 1..Len(f) : Len(f[i]) # Len(f[1])
    THEN [err |-> "ValueError", ndim |-> 0, val |-> Unset]
    ELSE [err  |-> "none",
          ndim |-> IF Len(f) <= 1 \/ NCols(f) <= 1 THEN 1 ELSE 2,
          val  |-> Arr([i \in 1..Len(f) |-> Arr([j \in 1..NCols(f) |-> ParseField(f[i][j])])])]

Init ==
    /\ file \in Files
    /\ pc = "load"
    /\ err = "none"
    /\ X = Unset /\ y = Unset
    /\ X_norm = Unset /\ mean = Unset /\ std = Unset
    /\ X_bias = Unset
    /\ theta = Unset
    /\ y_pred = Unset
    /\ mse = Unset /\ r2 = Unset
    /\ new_house = Unset /\ new_house_norm = Unset
    /\ new_house_bias = Unset /\ predicted_price = Unset

Raise(e) == pc' = "halted" /\ err' = e

\* data = np.genfromtxt(...); X = data[:, :-1]; y = data[:, -1]
Load ==
    /\ pc = "load"
    /\ LET r == genfromtxt(file)
       IN  IF r.err # "none"
           THEN Raise(r.err) /\ UNCHANGED <<X, y>>
           ELSE IF r.ndim # 2
           THEN Raise("IndexError") /\ UNCHANGED <<X, y>>
           ELSE /\ X' = Arr([i \in 1..Len(r.val) |-> SubSeq(r.val[i], 1, Len(r.val[i]) - 1)])
                /\ y' = Arr([i \in 1..Len(r.val) |-> r.val[i][Len(r.val[i])]])
                /\ pc' = "normalize"
                /\ UNCHANGED err
    /\ UNCHANGED <<file, X_norm, mean, std, X_bias, theta, y_pred, mse, r2,
                   new_house, new_house_norm, new_house_bias, predicted_price>>

\* np.mean(v)
np_mean(v) == Div(SumSeq(v), Num(Len(v)))

\* np.std with the sample denominator N - 1
np_std_sample(v) ==
    LET mu == np_mean(v)
    IN  Sqrt(Div(SumSeq(Arr([i \in 1..Len(v) |-> Mul(Sub(v[i], mu), Sub(v[i], mu))])),
                 Num(Len(v) - 1)))

\* np.std(v): the population standard deviation, sqrt(mean(abs(v - mean(v))**2))
np_std(v) ==
    LET mu == np_mean(v)
    IN  Sqrt(np_mean(Arr([i \in 1..Len(v) |-> Mul(Sub(v[i], mu), Sub(v[i], mu))])))

\* def normalize(X): the triple (X - mean) / std, mean, std
normalize(M) ==
    LET mu == Arr([j \in 1..NCols(M) |-> np_mean(Column(M, j))])
        sd == Arr([j \in 1..NCols(M) |-> np_std(Column(M, j))])
    IN  [X_norm |-> Arr([i \in 1..Len(M) |->
                        Arr([j \in 1..NCols(M) |-> Div(Sub(M[i][j], mu[j]), sd[j])])]),
         mean   |-> mu,
         std    |-> sd]

\* X_norm, mean, std = normalize(X)
Normalize ==
    /\ pc = "normalize"
    /\ LET r == normalize(X)
       IN  X_norm' = r.X_norm /\ mean' = r.mean /\ std' = r.std
    /\ pc' = "add_bias"
    /\ UNCHANGED <<file, err, X, y, X_bias, theta, y_pred, mse, r2,
                   new_house, new_house_norm, new_house_bias, predicted_price>>

\* the column of ones appended on the right
add_bias_right(M) == Arr([i \in 1..Len(M) |-> M[i] \o <<One>>])

\* def add_bias(X): np.c_[np.ones(X.shape[0]), X]
add_bias(M) == Arr([i \in 1..Len(M) |-> <<One>> \o M[i]])

\* X_bias = add_bias(X_norm)
AddBias ==
    /\ pc = "add_bias"
    /\ X_bias' = add_bias(X_norm)
    /\ pc' = "solve"
    /\ UNCHANGED <<file, err, X, y, X_norm, mean, std, theta, y_pred, mse, r2,
                   new_house, new_house_norm, new_house_bias, predicted_price>>

RECURSIVE IsPow2(_)
IsPow2(d) == d = 1 \/ (d > 1 /\ d % 2 = 0 /\ IsPow2(d \div 2))

\* a number of the model that is a float64: a ratio of small whole numbers whose
\* denominator is a power of two
FloatExact(a) == a[2] # 0 /\ a[3] = 1 /\ a[4] = 0 /\ IsPow2(a[2])

AbsNum(a) == IF a[1] < 0 THEN Neg(a) ELSE a

\* LAPACK's pivot search in column k: the first row from k on of largest |A[i][k]|
PivotRow(A, k) ==
    CHOOSE p \in k..Len(A) :
        /\ \A i \in k..Len(A) : Leq(AbsNum(A[i][k]), AbsNum(A[p][k]))
        /\ \A i \in k..(p - 1) : ~Leq(AbsNum(A[p][k]), AbsNum(A[i][k]))

\* LU with partial pivoting from column k on.  A holds the exact numbers and
\* T[i][j] the rounding of the float64 in that place: <<>> when the float is
\* A[i][j] itself, otherwise the computation that produced it, so that two
\* places with equal numbers and equal computations hold the same float.
\* TRUE when the elimination meets a pivot column whose candidates are all 0.0
\* as floats, which is when LAPACK reports a singular matrix; FALSE when the
\* zero of the exact elimination is a rounded number in float64, or when
\* rounding can change the pivot order.
RECURSIVE PivotsExact(_, _, _)
PivotsExact(A, T, k) ==
    LET K   == Len(A)
        p   == PivotRow(A, k)
        sw(i) == IF i = k THEN p ELSE IF i = p THEN k ELSE i
        S   == Arr([i \in 1..K |-> A[sw(i)]])
        ST  == Arr([i \in 1..K |-> T[sw(i)]])
        same(i, j) == S[i][j] = S[k][j] /\ ST[i][j] = ST[k][j]
        l   == Arr([i \in 1..K |-> IF i > k THEN Div(S[i][k], S[k][k]) ELSE Zero])
        lT  == Arr([i \in 1..K |->
                      IF i <= k \/ (S[i][k] = Zero /\ ST[i][k] = <<>>) \/ same(i, k) THEN <<>>
                      ELSE IF ST[i][k] = <<>> /\ ST[k][k] = <<>> /\ FloatExact(l[i]) THEN <<>>
                      ELSE <<"l", S[i][k], ST[i][k], S[k][k], ST[k][k]>>])
        u(i, j) == Sub(S[i][j], Mul(l[i], S[k][j]))
        U   == Arr([i \in 1..K |->
                      IF i > k
                      THEN Arr([j \in 1..K |-> IF j = k THEN Zero ELSE u(i, j)])
                      ELSE S[i]])
        UT  == Arr([i \in 1..K |->
                      IF i > k
                      THEN Arr([j \in 1..K |->
                                  IF j = k THEN <<>>
                                  ELSE IF l[i] = Zero /\ lT[i] = <<>> THEN ST[i][j]
                                  ELSE IF S[k][j] = Zero /\ ST[k][j] = <<>> THEN ST[i][j]
                                  ELSE IF l[i] = One /\ lT[i] = <<>> /\ same(i, j) THEN <<>>
                                  ELSE IF /\ ST[i][j] = <<>> /\ ST[k][j] = <<>> /\ lT[i] = <<>>
                                          /\ FloatExact(u(i, j))
                                  THEN <<>>
                                  ELSE <<"u", S[i][j], ST[i][j], l[i], lT[i], S[k][j], ST[k][j]>>])
                      ELSE ST[i]])
    IN  IF k > K THEN FALSE
        ELSE IF A[p][k] = Zero THEN \A i \in k..K : T[i][k] = <<>>
        ELSE IF \E i \in k..K : /\ i # p
                                /\ AbsNum(A[i][k]) = AbsNum(A[p][k])
                                /\ ~(A[i][k] = A[p][k] /\ T[i][k] = T[p][k])
                                /\ (T[i][k] # <<>> \/ T[p][k] # <<>>)
        THEN FALSE
        ELSE PivotsExact(U, UT, k + 1)

\* np.linalg.inv(M), every outcome.  LAPACK's LU raises LinAlgError("Singular
\* matrix") when a pivot is exactly 0.0.  For a matrix whose determinant is zero
\* that is certain when the pivot column is 0.0 in float64 (PivotsExact);
\* otherwise the pivot is 0.0 or a rounding residue, and with a residue inv
\* returns a matrix of large finite numbers.  rounded says whether the floats
\* of M are themselves rounded numbers.  A NaN entry makes the result NaN
\* without an exception.
inv(M, rounded) ==
    IF Det(M) # Zero
    THEN {[err |-> "none", val |-> Inverse(M)]}
    ELSE IF PivotsExact(M, Arr([i \in 1..Len(M) |-> Arr([j \in 1..Len(M) |->
                             IF rounded THEN <<"in", i, j>> ELSE <<>>])]), 1)
    THEN {[err |-> "LinAlgError", val |-> Unset]}
    ELSE {[err |-> "LinAlgError", val |-> Unset],
          [err |-> "none", val |-> Arr([i \in 1..Len(M) |-> Arr([j \in 1..Len(M) |-> Junk])])]}

\* the normal equation without the inverse
normal_equation_no_inv(M, v) ==
    {[err |-> "none", val |-> MatVec(MatMul(MatMul(Transpose(M), M), Transpose(M)), v)]}

\* def normal_equation(X, y): np.linalg.inv(X.T @ X) @ X.T @ y, every outcome
normal_equation(M, v) ==
    {IF o.err # "none" THEN o
     ELSE [err |-> "none", val |-> MatVec(MatMul(o.val, Transpose(M)), v)] :
        o \in inv(MatMul(Transpose(M), M),
                  \E i \in 1..Len(M) : \E j \in 1..NCols(M) : ~FloatExact(M[i][j]))}

\* theta = normal_equation(X_bias, y)
Solve ==
    /\ pc = "solve"
    /\ \E o \in normal_equation(X_bias, y) :
          IF o.err # "none"
          THEN Raise(o.err) /\ UNCHANGED theta
          ELSE theta' = o.val /\ pc' = "predict_train" /\ UNCHANGED err
    /\ UNCHANGED <<file, X, y, X_norm, mean, std, X_bias, y_pred, mse, r2,
                   new_house, new_house_norm, new_house_bias, predicted_price>>

\* y_pred = X_bias @ theta
PredictTrain ==
    /\ pc = "predict_train"
    /\ y_pred' = MatVec(X_bias, theta)
    /\ pc' = "evaluate"
    /\ UNCHANGED <<file, err, X, y, X_norm, mean, std, X_bias, theta, mse, r2,
                   new_house, new_house_norm, new_house_bias, predicted_price>>

SqDiff(u, v) == Arr([i \in 1..Len(u) |-> Mul(Sub(u[i], v[i]), Sub(u[i], v[i]))])

\* def mean_squared_error(y_true, y_pred)
mean_squared_error(y_true, yp) == np_mean(SqDiff(y_true, yp))

\* the ratio upside down
r2_score_swapped(y_true, yp) ==
    LET ss_res == SumSeq(SqDiff(y_true, yp))
        mu     == np_mean(y_true)
        ss_tot == SumSeq(SqDiff(y_true, Arr([i \in 1..Len(y_true) |-> mu])))
    IN  Sub(One, Div(ss_tot, ss_res))

\* def r2_score(y_true, y_pred)
r2_score(y_true, yp) ==
    LET ss_res == SumSeq(SqDiff(y_true, yp))
        mu     == np_mean(y_true)
        ss_tot == SumSeq(SqDiff(y_true, Arr([i \in 1..Len(y_true) |-> mu])))
    IN  Sub(One, Div(ss_res, ss_tot))

\* mse = mean_squared_error(y, y_pred); r2 = r2_score(y, y_pred)
Evaluate ==
    /\ pc = "evaluate"
    /\ mse' = mean_squared_error(y, y_pred)
    /\ r2' = r2_score(y, y_pred)
    /\ pc' = "predict_new"
    /\ UNCHANGED <<file, err, X, y, X_norm, mean, std, X_bias, theta, y_pred,
                   new_house, new_house_norm, new_house_bias, predicted_price>>

\* numpy broadcasting of a (1, m) array against a (c,) array
CanBroadcast(m, c) == m = c \/ m = 1 \/ c = 1

BroadcastWidth(row, v) == IF Len(row) >= Len(v) THEN Len(row) ELSE Len(v)

\* row - v and row / v, a length-1 operand repeated along the other's length
BroadcastSub(row, v) ==
    Arr([j \in 1..BroadcastWidth(row, v) |->
            Sub(IF Len(row) = 1 THEN row[1] ELSE row[j], IF Len(v) = 1 THEN v[1] ELSE v[j])])

\* the division by std left out
BroadcastDiv_skipped(row, v) ==
    Arr([j \in 1..BroadcastWidth(row, v) |-> IF Len(row) = 1 THEN row[1] ELSE row[j]])

BroadcastDiv(row, v) ==
    Arr([j \in 1..BroadcastWidth(row, v) |->
            Div(IF Len(row) = 1 THEN row[1] ELSE row[j], IF Len(v) = 1 THEN v[1] ELSE v[j])])

\* the new-sample cell standardising the new row by its own statistics:
\* new_house_norm, mean, std = normalize(new_house)
PredictNewRefit ==
    /\ pc = "predict_new"
    /\ \E nh \in NewHouses :
          LET r  == normalize(nh)
              nb == add_bias(r.X_norm)
          IN  /\ new_house' = nh
              /\ new_house_norm' = r.X_norm /\ mean' = r.mean /\ std' = r.std
              /\ new_house_bias' = nb
              /\ IF Len(nb[1]) # Len(theta)
                 THEN Raise("ValueError") /\ UNCHANGED predicted_price
                 ELSE /\ predicted_price' = MatVec(nb, theta)
                      /\ pc' = "done"
                      /\ UNCHANGED err
    /\ UNCHANGED <<file, X, y, X_norm, X_bias, theta, y_pred, mse, r2>>

\* the new-sample cell: new_house_norm = (new_house - mean) / std;
\* new_house_bias = add_bias(new_house_norm); predicted_price = new_house_bias @ theta
PredictNew ==
    /\ pc = "predict_new"
    /\ \E nh \in NewHouses :
          /\ new_house' = nh
          /\ IF ~CanBroadcast(Len(nh[1]), Len(mean))
             THEN /\ Raise("ValueError")
                  /\ UNCHANGED <<new_house_norm, new_house_bias, predicted_price>>
             ELSE LET nn == <<BroadcastDiv(BroadcastSub(nh[1], mean), std)>>
                      nb == add_bias(nn)
                  IN  /\ new_house_norm' = nn
                      /\ new_house_bias' = nb
                      /\ IF Len(nb[1]) # Len(theta)
                         THEN Raise("ValueError") /\ UNCHANGED predicted_price
                         ELSE /\ predicted_price' = MatVec(nb, theta)
                              /\ pc' = "done"
                              /\ UNCHANGED err
    /\ UNCHANGED <<file, X, y, X_norm, mean, std, X_bias, theta, y_pred, mse, r2>>

Next == Load \/ Normalize \/ AddBias \/ Solve \/ PredictTrain \/ Evaluate \/ PredictNew

Spec == Init /\ [][Next]_vars

\* ------------------------------------- the solver and the evaluator alone

\* design matrices and targets of whole numbers, of every shape up to
\* MaxRows rows and one column more than the widest feature count
DesignWidths == {1} \cup {c + 1 : c \in FeatureCounts}

DesignMatrices ==
    UNION {[1..R -> [1..K -> {Num(v) : v \in Values}]] : R \in 1..MaxRows, K \in DesignWidths}

Targets(R) == [1..R -> {Num(v) : v \in Values}]

\* predictions may miss the targets on either side, and a target of 0 by 2^-30
Predictions(t) ==
    {p \in [1..Len(t) -> {Num(v) : v \in Values} \cup {Num(0 - 1), <<1, 2, 1, 0>>, Small}] :
        \A i \in 1..Len(t) : p[i] = Small => t[i] = Zero}

InitOthers ==
    /\ file = Unset
    /\ err = "none"
    /\ X = Unset
    /\ X_norm = Unset /\ mean = Unset /\ std = Unset
    /\ theta = Unset
    /\ mse = Unset /\ r2 = Unset
    /\ new_house = Unset /\ new_house_norm = Unset
    /\ new_house_bias = Unset /\ predicted_price = Unset

\* normal_equation applied to any design matrix and target
InitSolve ==
    /\ pc = "solve"
    /\ X_bias \in DesignMatrices
    /\ y \in Targets(Len(X_bias))
    /\ y_pred = Unset
    /\ InitOthers

SpecSolve == InitSolve /\ [][Solve]_vars

\* mean_squared_error and r2_score applied to any two vectors of one length
InitEval ==
    /\ pc = "evaluate"
    /\ X_bias = Unset
    /\ y \in UNION {Targets(R) : R \in 1..MaxRows}
    /\ y_pred \in Predictions(y)
    /\ InitOthers

SpecEval == InitEval /\ [][Evaluate]_vars

\* ------------------------------------------------------------- properties

AllExactVec(v) == \A i \in 1..Len(v) : IsExact(v[i])
AllExactMat(M) == \A i \in 1..Len(M) : AllExactVec(M[i])

ConstColumn(M, j) == \A i \in 1..Len(M) : M[i][j] = M[1][j]

Gram(M) == MatMul(Transpose(M), M)

\* B is M with a leading column of ones: one column more, column 1 all ones,
\* columns 2.. the columns of M in order, rows in order
IsBiasOf(B, M) ==
    /\ Len(B) = Len(M)
    /\ \A i \in 1..Len(M) :
          /\ Len(B[i]) = Len(M[i]) + 1
          /\ B[i][1] = One
          /\ \A j \in 1..Len(M[i]) : B[i][j + 1] = M[i][j]

\* C1: add_bias of an R x C matrix is R x (C+1), its first column exactly 1 and
\* its other columns the matrix's columns in order, rows in order; for the
\* training matrix (R >= 2) when the add_bias cell has run, and for the new
\* sample (R = 1).
C1_AddBiasContract ==
    /\ pc = "solve" => IsBiasOf(X_bias, X_norm)
    /\ new_house_bias # Unset => IsBiasOf(new_house_bias, new_house_norm)

C1_Witness ==
    /\ pc = "done"
    /\ Len(X_bias) = MaxRows /\ NCols(X_norm) = 2 /\ AllExactMat(X_norm)
    /\ Len(new_house_bias) = 1 /\ NCols(new_house_norm) = 2

\* C2: normalize of a matrix of numbers with a zero-variance column raises
\* DegenerateColumnError and returns no matrix.
C2_DegenerateColumnRaises ==
    (X # Unset /\ AllExactMat(X) /\ AllExactVec(y) /\ pc # "normalize"
        /\ \E j \in 1..NCols(X) : ConstColumn(X, j))
    => (err = "DegenerateColumnError" /\ X_norm = Unset)

\* C3: with a trained theta, a new row whose feature count differs from the
\* training feature count makes the predictor fail; no prediction is produced
\* from it.
C3_MismatchRaises ==
    (new_house # Unset /\ AllExactVec(theta) /\ Len(new_house[1]) # NCols(X))
    => (err # "none" /\ predicted_price = Unset)

\* C4: normal_equation fails whenever the Gram matrix is not invertible and
\* returns no coefficient vector then.
C4_SingularRaises ==
    (pc # "solve" /\ Det(Gram(X_bias)) = Zero)
    => (err # "none" /\ theta = Unset)

\* C5: for a design matrix with R >= K whose Gram matrix is non-singular,
\* normal_equation returns theta of length K with Gram . theta = X^T . y.
C5_NormalEquationSolves ==
    (pc # "solve" /\ Len(X_bias) >= NCols(X_bias) /\ Det(Gram(X_bias)) # Zero)
    => /\ err = "none"
       /\ Len(theta) = NCols(X_bias)
       /\ MatVec(Gram(X_bias), theta) = MatVec(Transpose(X_bias), y)

C5_Witness ==
    /\ pc # "solve" /\ err = "none"
    /\ Len(X_bias) > NCols(X_bias) /\ NCols(X_bias) = 2
    /\ Det(Gram(X_bias)) # Zero
    /\ MatVec(X_bias, theta) # y

\* C6: when the normalize cell has run on a matrix without a zero-variance
\* column, mean is the column mean, std
\* the population standard deviation (denominator N), X_norm = (X - mean) / std,
\* and every column of X_norm has mean 0 and population standard deviation 1.
C6_NormalizeContract ==
    (pc = "add_bias" /\ AllExactMat(X) /\ \A j \in 1..NCols(X) : ~ConstColumn(X, j))
    => \A j \in 1..NCols(X) :
          LET N   == Num(Len(X))
              col == Column(X, j)
              dev == Arr([i \in 1..Len(X) |-> Sub(col[i], mean[j])])
              nrm == Column(X_norm, j)
          IN  /\ Mul(mean[j], N) = SumSeq(col)
              /\ IsExact(std[j]) /\ std[j][1] > 0
              /\ Mul(Mul(std[j], std[j]), N) = SumSeq(Arr([i \in 1..Len(X) |-> Mul(dev[i], dev[i])]))
              /\ \A i \in 1..Len(X) : Mul(nrm[i], std[j]) = dev[i]
              /\ SumSeq(nrm) = Zero
              /\ SumSeq(Arr([i \in 1..Len(X) |-> Mul(nrm[i], nrm[i])])) = N

C6_Witness ==
    /\ pc = "add_bias" /\ AllExactMat(X)
    /\ Len(X) = MaxRows /\ NCols(X) = 2
    /\ \A j \in 1..NCols(X) : ~ConstColumn(X, j)
    /\ std[1][3] # 1

\* C7 as stated: for a target of nonzero variance, r2_score is at most 1 and
\* equals 1 exactly when the predictions equal the targets entry by entry.
C7_R2OneIffEqual ==
    (r2 # Unset /\ \E i \in 1..Len(y) : y[i] # y[1])
    => /\ IsExact(r2)
       /\ Leq(r2, One)
       /\ (r2 = One <=> y_pred = y)

\* C7 as amended: for a target of nonzero variance, r2_score is at most 1 and
\* equals 1 when the predictions equal the targets entry by entry; when it
\* equals 1, every prediction equals its target or misses it by no more than
\* the subtraction from 1 absorbs.
C7_R2AtMostOne ==
    (r2 # Unset /\ \E i \in 1..Len(y) : y[i] # y[1])
    => /\ IsExact(r2)
       /\ Leq(r2, One)
       /\ (y_pred = y => r2 = One)
       /\ (r2 = One => \A i \in 1..Len(y) : y_pred[i] = y[i] \/ Sub(y[i], y_pred[i])[4] >= 1)

C7_Witness ==
    /\ r2 = One /\ y_pred # y
    /\ Len(y) = MaxRows
    /\ \E i \in 1..Len(y) : y[i] # y[1]

HasBadField(f) ==
    \/ \E i \in 1..Len(f) : \E j \in 1..Len(f[i]) : f[i][j] = <<>>
    \/ \E i \in 1..Len(f) : Len(f[i]) # Len(f[1])

\* C8: a file with a malformed or missing field makes the loader fail; no
\* Dataset is produced from it.
C8_MalformedRaises ==
    (pc # "load" /\ HasBadField(file))
    => (err # "none" /\ X = Unset /\ y = Unset)

Rank(p) ==
    CASE p = "load" -> 0 [] p = "normalize" -> 1 [] p = "add_bias" -> 2
      [] p = "solve" -> 3 [] p = "predict_train" -> 4 [] p = "evaluate" -> 5
      [] p = "predict_new" -> 6 [] p = "done" -> 7 [] p = "halted" -> 8

\* C9: X and y change only in the load cell, mean and std only in the normalize
\* cell (to the statistics of the training X), theta only in the solve cell; no
\* cell runs twice; and the new-sample prediction is the new row standardised by
\* the training X's statistics, biased, times the solver's theta.
C9_AssignedOnce ==
    [][LET trained == normalize(X)
       IN  /\ (X' # X \/ y' # y) => pc = "load"
           /\ (mean' # mean \/ std' # std)
                => (pc = "normalize" /\ mean' = trained.mean /\ std' = trained.std)
           /\ theta' # theta
                => /\ pc = "solve" /\ theta = Unset
                   /\ theta' \in {o.val : o \in normal_equation(add_bias(trained.X_norm), y)}
           /\ pc' # pc => Rank(pc') > Rank(pc)
           /\ pc' = "done"
                => /\ theta' = theta
                   /\ predicted_price' =
                         MatVec(add_bias(<<BroadcastDiv(BroadcastSub(new_house'[1], trained.mean),
                                                        trained.std)>>), theta)
      ]_vars

C9_Witness ==
    /\ pc = "done" /\ AllExactVec(predicted_price)
    /\ NCols(X) = 2 /\ Len(X) = MaxRows
    /\ predicted_price[1] # Zero

====
